---- MODULE Spec2Model ----
(***************************************************************************)
(* A model of OpenTamPy (src/src/OpenTamPy.py): one Intranet client, its   *)
(* login handshake, its functools.cache memoization, its generator-valued  *)
(* operations and the portal it talks to.                                  *)
(*                                                                         *)
(* Text is modelled as sequences of one-character strings.  A decimal      *)
(* number kept as text is the record [m, z]: the digits of m followed by z *)
(* zeros, so that appending "000" and int() are not the identity.          *)
(***************************************************************************)
EXTENDS Integers, Sequences, FiniteSets, TLC

\* ------------------------------------------------------------------ bounds
\* Operations performed on a constructed client in one behaviour.
MaxOps == 2
\* The portal's data changes at most this many times.
MaxVer == 1
\* Lessons of the timetable are 1..MaxLesson.
MaxLesson == 2
\* Longest roster returned by the resources endpoint.
MaxRoster == 2
\* "today" ranges over day 0 (1970-01-01, a Thursday) .. MaxToday.
MaxToday == 7

\* ------------------------------------------------- constants of the program
\* calendar.timegm(...) - 7200
MonOffset == 7200
\* int(prev_mon) + 691200
SunOffset == 691200
SecondsPerDay == 86400
\* int(time.timestamp())*1000
MsFactor == 1000

\* ------------------------------------------------------------- text helpers
Range(s) == {s[i] : i \in 1..Len(s)}

\* str.lower() on the alphabet used here
LowerChar(c) == IF c = "A" THEN "a" ELSE IF c = "B" THEN "b" ELSE c
lower(s) == [i \in 1..Len(s) |-> LowerChar(s[i])]

RECURSIVE lstrip(_)
lstrip(s) == IF s # <<>> /\ Head(s) = " " THEN lstrip(Tail(s)) ELSE s
RECURSIVE rstrip(_)
rstrip(s) == IF s # <<>> /\ s[Len(s)] = " " THEN rstrip(SubSeq(s, 1, Len(s) - 1)) ELSE s
\* str.strip()
strip(s) == rstrip(lstrip(s))

\* str.split(sep): the parts between the occurrences of sep
RECURSIVE split(_, _)
split(s, sep) ==
    IF \E i \in 1..Len(s) : s[i] = sep
    THEN LET i == CHOOSE k \in 1..Len(s) : s[k] = sep /\ \A j \in 1..(k - 1) : s[j] # sep
         IN  <<SubSeq(s, 1, i - 1)>> \o split(SubSeq(s, i + 1, Len(s)), sep)
    ELSE <<s>>

\* ---------------------------------------------------------------- inputs
\* Usernames handed to Intranet(...): a.b, A.b, b.a, " a.b", ab, a.b.a
Usernames ==
    { <<"a", ".", "b">>, <<"A", ".", "b">>, <<"b", ".", "a">>, <<" ", "a", ".", "b">>,
      <<"a", "b">>, <<"a", ".", "b", ".", "a">> }
\* Names of roster entries: "b, a", "B, A", "a, b", "b,a", "b, a "
RosterNames ==
    { <<"b", ",", " ", "a">>, <<"B", ",", " ", "A">>, <<"a", ",", " ", "b">>,
      <<"b", ",", "a">>, <<"b", ",", " ", "a", " ">> }
\* resources.students: entry i has personId i
RostersOfLen(n) == {[i \in 1..n |-> [personId |-> i, name |-> f[i]]] : f \in [1..n -> RosterNames]}
Rosters == UNION {RostersOfLen(n) : n \in 0..MaxRoster}
\* The inputs of the client whose operations are explored: user a.b is person 2.
ClientUsernames == { <<"a", ".", "b">> }
ClientRosters ==
    { <<[personId |-> 1, name |-> <<"a", ",", " ", "b">>], [personId |-> 2, name |-> <<"B", ",", " ", "A">>]>> }
Hashes == {11, 12}
Tokens == {21, 22}
ClientHashes == {11}
ClientTokens == {21}
\* list/index/list/45 as served by the portal: PersonIDs in page order
MateLists == { <<1>>, <<1, 2>>, <<2, 1>> }
Lessons == 1..MaxLesson

\* ------------------------------------------------------- pure functions
\* the loop keeping the last matching entry instead of returning at the first
RECURSIVE LastMatch(_, _)
LastMatch(target, students) ==
    IF students = <<>> THEN [err |-> "UserIdNotMatching", id |-> 0]
    ELSE IF target = lower(students[Len(students)].name)
    THEN [err |-> "none", id |-> students[Len(students)].personId]
    ELSE LastMatch(target, SubSeq(students, 1, Len(students) - 1))
\* _match_username_to_user_id: the loop returns at the first matching entry.
RECURSIVE FirstMatch(_, _)
FirstMatch(target, students) ==
    IF students = <<>> THEN [err |-> "UserIdNotMatching", id |-> 0]
    ELSE IF target = lower(Head(students).name) THEN [err |-> "none", id |-> Head(students).personId]
    ELSE FirstMatch(target, Tail(students))

_match_username_to_user_id(username, students) ==
    LET parts == split(username, ".")
    IN  IF Len(parts) # 2 THEN [err |-> "ValueError", id |-> 0]
        ELSE LET firstname == parts[1]
                 lastname == parts[2]
                 target == lower(strip(lastname)) \o <<",", " ">> \o lower(strip(firstname))
             IN  FirstMatch(target, students)

\* An HTTP response: its status (requests' response.ok) and its body: the content
\* the endpoint is meant to return, the page the portal substitutes when it does
\* not recognise the session, or an error page.
Responses ==
    { [ok |-> TRUE, body |-> "expected"], [ok |-> TRUE, body |-> "reauth"],
      [ok |-> FALSE, body |-> "error"] }

\* no answer: requests raised ConnectionError; a request never sent
Unreachable == [ok |-> FALSE, body |-> "unreachable"]
Unasked == [ok |-> FALSE, body |-> "unasked"]

\* a validator that lets every response through
_verify_nothing(name, response) == [err |-> "none", ret |-> response]
\* _verify_response_code: assert response.ok, then the same response
_verify_response_code(name, response) ==
    IF response.ok THEN [err |-> "none", ret |-> response]
    ELSE [err |-> "AssertionError", ret |-> response]

\* ------------------------------------------------------------------ dates
\* int() of a number kept as text
IntOf(ns) == IF ns.z = 0 THEN ns.m ELSE IF ns.z = 3 THEN ns.m * 1000 ELSE ns.m * 1000 * 1000
\* whether the text ns denotes the integer v (by digits, without computing ns's value)
RECURSIVE NumStrIs(_, _)
NumStrIs(ns, v) ==
    IF ns.z = 0 THEN ns.m = v
    ELSE v % 10 = 0 /\ NumStrIs([m |-> ns.m, z |-> ns.z - 1], v \div 10)

\* datetime.date.weekday(): Monday is 0; day 0 is Thursday 1970-01-01
weekday(day) == (day + 3) % 7

\* _get_mon_and_sun, uncached: the pair computed when today is `day`
MonAndSun(day) ==
    LET diff == weekday(day)
        prev_mon == [m |-> (day - diff) * SecondsPerDay - MonOffset, z |-> 3]
        next_sun == [m |-> IntOf(prev_mon) + SunOffset, z |-> 3]
    IN  <<prev_mon, next_sun>>

IsDigit(c) == c \in {"0", "1", "2", "3", "4", "5", "6", "7", "8", "9"}
DigitVal(c) ==
    CASE c = "0" -> 0 [] c = "1" -> 1 [] c = "2" -> 2 [] c = "3" -> 3 [] c = "4" -> 4
      [] c = "5" -> 5 [] c = "6" -> 6 [] c = "7" -> 7 [] c = "8" -> 8 [] c = "9" -> 9
RECURSIVE NumVal(_)
NumVal(s) == IF s = <<>> THEN 0 ELSE NumVal(SubSeq(s, 1, Len(s) - 1)) * 10 + DigitVal(s[Len(s)])
AllDigits(s) == s # <<>> /\ \A i \in 1..Len(s) : IsDigit(s[i])

IsLeap(y) == (y % 4 = 0 /\ y % 100 # 0) \/ y % 400 = 0
DaysInMonth(y, m) ==
    IF m = 2 THEN (IF IsLeap(y) THEN 29 ELSE 28)
    ELSE IF m \in {4, 6, 9, 11} THEN 30 ELSE 31
RECURSIVE DaysBeforeMonth(_, _)
DaysBeforeMonth(y, m) == IF m = 1 THEN 0 ELSE DaysBeforeMonth(y, m - 1) + DaysInMonth(y, m - 1)
\* days from 1970-01-01 to y-m-d
DaysFromEpoch(y, m, d) ==
    365 * (y - 1970) + ((y - 1969) \div 4) - ((y - 1901) \div 100) + ((y - 1601) \div 400)
        + DaysBeforeMonth(y, m) + d - 1

\* datetime.datetime.strptime(text, "%d.%m.%y"): %d is 3[0-1]|[1-2]\d|0[1-9]|[1-9],
\* %m is 1[0-2]|0[1-9]|[1-9], %y is \d\d (69..99 -> 19yy, 00..68 -> 20yy); the
\* whole text must be consumed and the day must exist in the month.
\* The date of the fields (day, month, two-digit year) found in the text.
DateOfFields(ds, ms, ys) ==
    IF Len(ds) \in {1, 2} /\ NumVal(ds) \in 1..31 /\ Len(ms) \in {1, 2} /\ NumVal(ms) \in 1..12
       /\ Len(ys) = 2
       /\ NumVal(ds) <= DaysInMonth(IF NumVal(ys) >= 69 THEN 1900 + NumVal(ys) ELSE 2000 + NumVal(ys), NumVal(ms))
    THEN [err |-> "none",
          day |-> DaysFromEpoch(IF NumVal(ys) >= 69 THEN 1900 + NumVal(ys) ELSE 2000 + NumVal(ys),
                                NumVal(ms), NumVal(ds))]
    ELSE [err |-> "ValueError", day |-> 0]
FieldsOf(parts) ==
    IF Len(parts) # 3 \/ \E i \in 1..3 : ~AllDigits(parts[i])
    THEN [err |-> "ValueError", day |-> 0]
    ELSE DateOfFields(parts[1], parts[2], parts[3])
strptime(text) == FieldsOf(split(text, "."))

\* int(time.timestamp())*1000 for local midnight of `day`; tz is the local UTC
\* offset in seconds in force on that day
timestamp_ms(day, tz) == (day * SecondsPerDay - tz) * MsFactor

\* Date arguments of get_timetable, by index; index 0 is the default 0.
\* 05.01.70, 12.01.70, 5.1.70, 1970-01-05, 05.01.1970, 31.02.70, and the text "0"
DateStrings ==
    << <<"0", "5", ".", "0", "1", ".", "7", "0">>,
       <<"1", "2", ".", "0", "1", ".", "7", "0">>,
       <<"5", ".", "1", ".", "7", "0">>,
       <<"1", "9", "7", "0", "-", "0", "1", "-", "0", "5">>,
       <<"0", "5", ".", "0", "1", ".", "1", "9", "7", "0">>,
       <<"3", "1", ".", "0", "2", ".", "7", "0">>,
       <<"0">> >>
\* str(start_date)
DateText(i) == IF i = 0 THEN <<"0">> ELSE DateStrings[i]
DateArgs == 0..Len(DateStrings)
\* local UTC offsets (seconds) the process may run under
TzOffsets == {0, 3600}

\* get_timetable, "Logic for getting start as well as endDate": the window sent,
\* or the error raised. monsun is the pair _get_mon_and_sun() returns.
\* Both dates parsed: the assertion start_date < end_date is caught and logged.
WindowOfRaising(sv, ev) ==
    [err |-> IF sv < ev THEN "none" ELSE "BadTimestamp", start |-> [m |-> sv, z |-> 0],
     end |-> [m |-> ev, z |-> 0], logged |-> FALSE]
WindowOf(sv, ev) ==
    [err |-> "none", start |-> [m |-> sv, z |-> 0], end |-> [m |-> ev, z |-> 0], logged |-> ~(sv < ev)]
CustomWindow(s, e, tzs, tze) ==
    IF s.err # "none" \/ e.err # "none"
    THEN [err |-> "BadTimestamp", start |-> [m |-> 0, z |-> 0], end |-> [m |-> 0, z |-> 0],
          logged |-> FALSE]
    ELSE WindowOf(timestamp_ms(s.day, tzs), timestamp_ms(e.day, tze))
TimetableWindow(start_date, end_date, tzs, tze, monsun) ==
    IF DateText(start_date) = <<"0">> /\ DateText(end_date) = <<"0">>
    THEN [err |-> "none", start |-> monsun[1], end |-> monsun[2], logged |-> FALSE]
    ELSE CustomWindow(strptime(DateText(start_date)), strptime(DateText(end_date)), tzs, tze)

\* ------------------------------------------------------------ the machine
VARIABLES
    phase,      \* "new" | "ready" | "failed": Intranet(...) not yet called, returned, raised
    self,       \* the instance's fields
    cache,      \* functools.cache of the methods: key -> id of the cached object
    heap,       \* the objects the client retains: id -> object
    monSun,     \* functools.cache of _get_mon_and_sun: <<>> or <<pair>>
    ver,        \* the portal's data version
    mates,      \* the portal's classmates list
    today,      \* datetime.date.today(), days since 1970-01-01
    ops,        \* operations performed so far
    last,       \* the last operation: its call, what it returned or raised, what it sent
    first,      \* history: key -> id returned by the first successful call
    firstFull,  \* history: key -> records of the first loop that ran a generator from
                \* its start to its end and received any
    loop        \* the asyncio event loop: its tasks, the running one, the requests sent

vars == <<phase, self, cache, heap, monSun, ver, mates, today, ops, last, first, firstFull, loop>>

NoVal ==
    [kind |-> "none", op |-> "", arg |-> <<>>, ver |-> -1, st |-> "", items |-> <<>>, pos |-> 0,
     students |-> <<>>]
\* munchify(...) / json.loads(...) of a response body
Value(kind, op, arg, v) == [NoVal EXCEPT !.kind = kind, !.op = op, !.arg = arg, !.ver = v, !.st = "value"]
\* the generator object a generator function returns: no line of its body has run
Generator(op, arg) == [NoVal EXCEPT !.kind = "generator", !.op = op, !.arg = arg, !.st = "fresh"]

NoSelf == [username |-> <<>>, hash |-> 0, csrf_token |-> 0, user_id |-> 0, resources |-> 0]

Key(op, arg) == [op |-> op, arg |-> arg]
\* an HTTP request with the answer it got
Request(ep, data, resp) == [ep |-> ep, data |-> data, ok |-> resp.ok, body |-> resp.body]
\* the result of running code from state m: the state after, the error raised
\* ("none": returned), the id of the returned object when it is retained (else 0),
\* the returned value, the records a loop over it received
R(m, err, ret, val) == [m |-> m, err |-> err, ret |-> ret, val |-> val, yielded |-> <<>>]

Send(m, req) == [m EXCEPT !.sent = Append(@, req)]
Alloc(m, obj) == [m EXCEPT !.heap = Append(@, obj)]
\* functools.cache: a hit returns the stored object without calling the function
Hit(m, k) == k \in DOMAIN m.cache
CacheStoreNever(m, k, id) == m
\* functools.cache: the result of a call that returned is stored under its key
CacheStore(m, k, id) ==
    LET c == m.cache
    IN  [m EXCEPT !.cache = [x \in (DOMAIN c) \cup {k} |-> IF x = k THEN id ELSE c[x]]]
\* the history f with v recorded under k
Remember(f, k, v) == [x \in (DOMAIN f) \cup {k} |-> IF x = k THEN v ELSE f[x]]
\* hash() of an argument: a Munch hashes (Munch.__hash__), a list does not
Hashable(a) == ~a.list

\* Intranet.get_resources: (csrf_token, response) -> Munch
get_resources(m, csrf_token, resp, roster, v) ==
    LET k == Key("get_resources", <<>>)
        m1 == Send(m, Request("ajax-get-resources", <<csrf_token>>, resp))
        obj == [Value("Munch", "get_resources", <<>>, v) EXCEPT !.students = roster]
        m2 == Alloc(m1, obj)
    IN  IF Hit(m, k) THEN R(m, "none", m.cache[k], m.heap[m.cache[k]])
        ELSE IF _verify_response_code("get-resources", resp).err # "none"
             THEN R(m1, "AssertionError", 0, NoVal)
        ELSE IF resp.body # "expected" THEN R(m1, "AuthenticationError", 0, NoVal)
        ELSE R(CacheStore(m2, k, Len(m2.heap)), "none", Len(m2.heap), obj)

\* Intranet.__init__: the handshake. `in` holds the portal's answers.
Intranet_init(m, username, in) ==
    LET s1 == [NoSelf EXCEPT !.username = username]
        m1 == Send(m, Request("base-url", <<>>, IF in.reachable THEN in.landing ELSE Unreachable))
        s2 == [s1 EXCEPT !.hash = in.hash]
        m2 == Send(m1, Request("authentication", <<s2.hash>>, in.login))
        m3 == Send(m2, Request("classbook", <<>>, in.classbook))
        s3 == [s2 EXCEPT !.csrf_token = in.token]
        res == get_resources(m3, s3.csrf_token, in.resources, in.roster, in.ver)
        s4 == [s3 EXCEPT !.resources = res.ret]
        uid == _match_username_to_user_id(username, res.val.students)
        s5 == [s4 EXCEPT !.user_id = uid.id]
        fail(mm, e) == [m |-> mm, err |-> e, self |-> NoSelf, asked |-> Len(mm.sent)]
    IN  IF ~in.reachable \/ _verify_response_code("base-url", in.landing).err # "none"
           \/ in.landing.body # "expected"
        THEN fail(m1, "IntranetConnectionError")
        ELSE IF _verify_response_code("authentication", in.login).err # "none"
        THEN fail(m2, "AssertionError")
        ELSE IF _verify_response_code("classbook_response", in.classbook).err # "none"
        THEN fail(m3, "AssertionError")
        ELSE IF in.classbook.body # "expected" THEN fail(m3, "AttributeError")
        ELSE IF res.err # "none" THEN fail(res.m, res.err)
        ELSE IF uid.err # "none" THEN fail(res.m, uid.err)
        ELSE [m |-> res.m, err |-> "none", self |-> s5, asked |-> Len(res.m.sent)]

\* -------------------------------------------------- generators and methods
\* What the running client sees: env = [self, ver, mates, today]; the answers to
\* the requests of one operation: in = [resp, resp2, tzs, tze, picerr].

\* A generator function called through functools.cache: the call creates the
\* generator object (or returns the cached one) and runs none of the body.
CachedGenerator(m, op, arg) ==
    LET k == Key(op, arg)
        m1 == Alloc(m, Generator(op, arg))
    IN  IF Hit(m, k) THEN R(m, "none", m.cache[k], m.heap[m.cache[k]])
        ELSE R(CacheStore(m1, k, Len(m1.heap)), "none", Len(m1.heap), Generator(op, arg))

get_timetable(m, start_date, end_date) == CachedGenerator(m, "get_timetable", <<start_date, end_date>>)
get_absences(m) == CachedGenerator(m, "get_absences", <<>>)
get_class_mates(m) == CachedGenerator(m, "get_class_mates", <<>>)
get_class_teachers(m) == CachedGenerator(m, "get_class_teachers", <<>>)

\* _get_mon_and_sun through functools.cache: computed on the first call only
_get_mon_and_sun(m, day) ==
    IF m.monSun # <<>> THEN m ELSE [m EXCEPT !.monSun = <<MonAndSun(day)>>]

\* get_timetable, "Request to get timetable, aswell as loading it": w is the window
TimetableRequest(m, w, in, env) ==
    IF w.err # "none" THEN [m |-> m, err |-> w.err, items |-> <<>>]
    ELSE IF _verify_response_code("ajax-get-timetable", in.resp).err # "none"
    THEN [m |-> Send(m, Request("ajax-get-timetable",
                                <<w.start.m, w.start.z, w.end.m, w.end.z, env.self.user_id>>, in.resp)),
          err |-> "AssertionError", items |-> <<>>]
    ELSE [m |-> Send(m, Request("ajax-get-timetable",
                                <<w.start.m, w.start.z, w.end.m, w.end.z, env.self.user_id>>, in.resp)),
          err |-> IF in.resp.body # "expected" THEN "JSONDecodeError" ELSE "none",
          items |-> IF in.resp.body # "expected" THEN <<>> ELSE [i \in 1..MaxLesson |-> i]]

\* The body of get_timetable up to its first yield: the lessons, or the error.
TimetableBody(m, arg, in, env) ==
    IF DateText(arg[1]) = <<"0">> /\ DateText(arg[2]) = <<"0">>
    THEN TimetableRequest(_get_mon_and_sun(m, env.today),
                          TimetableWindow(arg[1], arg[2], in.tzs, in.tze,
                                          _get_mon_and_sun(m, env.today).monSun[1]), in, env)
    ELSE TimetableRequest(m, TimetableWindow(arg[1], arg[2], in.tzs, in.tze, << >>), in, env)

\* list/index/list/<n> of each list operation, and what the portal lists there
ListId(op) == IF op = "get_absences" THEN 112 ELSE IF op = "get_class_mates" THEN 45 ELSE 46
ListData(op, env) == IF op = "get_class_mates" THEN env.mates ELSE <<1>>

\* The body of get_absences / get_class_mates / get_class_teachers up to its first
\* yield: re.search(...).group() on a page without the pattern is None.group().
ListBody(m, op, in, env) ==
    LET m1 == Send(m, Request("list", <<ListId(op)>>, in.resp))
    IN  IF _verify_response_code(op, in.resp).err # "none"
        THEN [m |-> m1, err |-> "AssertionError", items |-> <<>>]
        ELSE IF in.resp.body # "expected" THEN [m |-> m1, err |-> "AttributeError", items |-> <<>>]
        ELSE [m |-> m1, err |-> "none", items |-> ListData(op, env)]

GenBody(m, g, in, env) ==
    IF g.op = "get_timetable" THEN TimetableBody(m, g.arg, in, env) ELSE ListBody(m, g.op, in, env)

SetObj(m, id, obj) == [m EXCEPT !.heap[id] = obj]

\* A loop over generator id: `for x in g` to the end (full), or left by break after
\* its first record. A fresh generator runs its body; a suspended one resumes after
\* the record it yielded last; a finished one (returned or raised) yields nothing.
\* A loop over the records `items` of generator g from position `from`.
Yield(m, id, full, env, g, items, from) ==
    [R(SetObj(m, id, [g EXCEPT !.st = IF full \/ from > Len(items) THEN "done" ELSE "suspended",
                               !.items = items,
                               !.pos = IF full \/ from > Len(items) THEN Len(items) ELSE from,
                               !.ver = IF g.st = "fresh" THEN env.ver ELSE @]),
       "none", id, g)
     EXCEPT !.yielded = SubSeq(items, from, IF full \/ from > Len(items) THEN Len(items) ELSE from)]
\* b is the outcome of the generator's body, used when the generator is fresh
IterateWith(m, id, full, env, g, b) ==
    IF g.st = "done" THEN R(m, "none", id, g)
    ELSE IF g.st = "fresh" /\ b.err # "none" THEN R(SetObj(b.m, id, [g EXCEPT !.st = "done"]), b.err, id, g)
    ELSE IF g.st = "fresh" THEN Yield(b.m, id, full, env, g, b.items, 1)
    ELSE Yield(m, id, full, env, g, g.items, g.pos + 1)
Iterate(m, id, full, in, env) ==
    IterateWith(m, id, full, env, m.heap[id], GenBody(m, m.heap[id], in, env))

\* Intranet._get_lesson_absence_data, after the loop `it` over self.get_class_mates()
AbsenceRequest(it, lesson, in, env) ==
    IF it.err # "none" THEN R(it.m, it.err, 0, NoVal)
    ELSE IF ~(env.self.user_id \in Range(it.yielded)) THEN R(it.m, "AssertionError", 0, NoVal)
    ELSE IF _verify_response_code("absence-data-lesson", in.resp2).err # "none"
    THEN R(Send(it.m, Request("ajax-get-lesson-students-absence-data",
                              <<lesson, env.self.user_id, env.self.csrf_token>>, in.resp2)),
           "AssertionError", 0, NoVal)
    ELSE IF in.resp2.body # "expected"
    THEN R(Send(it.m, Request("ajax-get-lesson-students-absence-data",
                              <<lesson, env.self.user_id, env.self.csrf_token>>, in.resp2)),
           "WrongWebpageReturned", 0, NoVal)
    ELSE R(Send(it.m, Request("ajax-get-lesson-students-absence-data",
                              <<lesson, env.self.user_id, env.self.csrf_token>>, in.resp2)),
           "none", 0, Value("dict", "_get_lesson_absence_data", <<lesson>>, env.ver))
\* the loop over the generator c that self.get_class_mates() returned
AbsenceLoop(c, lesson, in, env) == AbsenceRequest(Iterate(c.m, c.ret, TRUE, in, env), lesson, in, env)
\* a call that returned (r.err = "none") with a value not retained yet: the value
\* becomes object Len(heap) + 1 and is stored under key k
Retain(r, k) ==
    IF r.err # "none" THEN r
    ELSE IF r.ret # 0 THEN [r EXCEPT !.m = CacheStore(r.m, k, r.ret)]
    ELSE [r EXCEPT !.m = CacheStore(Alloc(r.m, r.val), k, Len(r.m.heap) + 1), !.ret = Len(r.m.heap) + 1]
\* Intranet._get_lesson_absence_data
_get_lesson_absence_data(m, lesson, in, env) ==
    IF Hit(m, Key("_get_lesson_absence_data", <<lesson>>))
    THEN R(m, "none", m.cache[Key("_get_lesson_absence_data", <<lesson>>)],
           m.heap[m.cache[Key("_get_lesson_absence_data", <<lesson>>)]])
    ELSE Retain(AbsenceLoop(get_class_mates(m), lesson, in, env), Key("_get_lesson_absence_data", <<lesson>>))

\* [munchify(self._get_lesson_absence_data(obj)) for obj in lesson]: h is the
\* outcome for the first lesson, t the outcome for the others
ConsAbsenceData(l, h, t) ==
    IF h.err # "none" THEN R(h.m, h.err, 0, NoVal)
    ELSE IF t.err # "none" THEN t
    ELSE [t EXCEPT !.val.items = <<l>> \o @, !.val.arg = <<l>> \o @]
RECURSIVE AbsenceDataOfEach(_, _, _, _)
AbsenceDataRest(h, ls, in, env) == ConsAbsenceData(Head(ls), h, AbsenceDataOfEach(h.m, Tail(ls), in, env))
AbsenceDataOfEach(m, ls, in, env) ==
    IF ls = <<>> THEN R(m, "none", 0, Value("list", "get_lesson_absence_data", <<>>, env.ver))
    ELSE AbsenceDataRest(_get_lesson_absence_data(m, Head(ls), in, env), ls, in, env)

\* Intranet.get_lesson_absence_data through functools.cache, which hashes the
\* argument before anything else: a = [list, ls] is one lesson or a list of them.
get_lesson_absence_data(m, a, in, env) ==
    IF ~Hashable(a) THEN R(m, "TypeError", 0, NoVal)
    ELSE IF Hit(m, Key("get_lesson_absence_data", a.ls))
    THEN R(m, "none", m.cache[Key("get_lesson_absence_data", a.ls)],
           m.heap[m.cache[Key("get_lesson_absence_data", a.ls)]])
    ELSE IF a.list
    THEN Retain(AbsenceDataOfEach(m, a.ls, in, env), Key("get_lesson_absence_data", a.ls))
    ELSE Retain(_get_lesson_absence_data(m, a.ls[1], in, env), Key("get_lesson_absence_data", a.ls))

\* Intranet.get_additional_homework_info
get_additional_homework_info(m, lesson, in, env) ==
    LET k == Key("get_additional_homework_info", <<lesson>>)
        m1 == Send(m, Request("ajax-get-lesson-home-work-data", <<lesson, env.self.csrf_token>>, in.resp))
        obj == Value("Munch", "get_additional_homework_info", <<lesson>>, env.ver)
        m2 == Alloc(m1, obj)
    IN  IF Hit(m, k) THEN R(m, "none", m.cache[k], m.heap[m.cache[k]])
        ELSE IF _verify_response_code("homework-data", in.resp).err # "none"
        THEN R(m1, "AssertionError", 0, NoVal)
        ELSE IF in.resp.body # "expected" THEN R(m1, "JSONDecodeError", 0, NoVal)
        ELSE R(CacheStore(m2, k, Len(m2.heap)), "none", Len(m2.heap), obj)

\* a save that drops what the client has cached
set_homework_data_clearing(m, lesson, title, description, in, env) ==
    R([Send(m, Request("ajax-save-lesson-home-work-data",
                       <<lesson, title, description, env.self.csrf_token>>, in.resp))
          EXCEPT !.cache = << >>],
      IF in.resp.ok /\ in.resp.body = "expected" THEN "none" ELSE "AssertionError", 0, NoVal)
\* Intranet.set_homework_data: title and description are 0 for "" and 1 for a text;
\* the body "empty" is an answer whose data is the empty list
set_homework_data(m, lesson, title, description, in, env) ==
    LET m1 == Send(m, Request("ajax-save-lesson-home-work-data",
                              <<lesson, title, description, env.self.csrf_token>>, in.resp))
    IN  IF _verify_response_code("ajax-save-lesson-home-work-data", in.resp).err # "none"
        THEN R(m1, "AssertionError", 0, NoVal)
        ELSE IF in.resp.body \notin {"expected", "empty"} THEN R(m1, "JSONDecodeError", 0, NoVal)
        ELSE IF in.resp.body = "empty" THEN R(m1, "AssertionError", 0, NoVal)
        ELSE R(m1, "none", 0, Value("Munch", "set_homework_data", <<lesson, title, description>>, env.ver))

\* Intranet.delete_homework_info
delete_homework_info(m, lesson, in, env) == set_homework_data(m, lesson, 0, 0, in, env)

\* Intranet.get_person_picture: studentid 0 is None. The response is not verified;
\* a body that is no base64 JPEG fails in b64decode or in Image.open (in.picerr).
get_person_picture(m, studentid, in, env) ==
    LET person == IF studentid = 0 THEN env.self.user_id ELSE studentid
        m1 == Send(m, Request("get-person-picture", <<person, env.self.csrf_token>>, in.resp))
    IN  IF in.resp.ok /\ in.resp.body = "expected"
        THEN R(m1, "none", 0, Value("JpegImageFile", "get_person_picture", <<person>>, env.ver))
        ELSE R(m1, in.picerr, 0, NoVal)

\* The portal's answers to the first n requests of the handshake; a request never
\* sent has no answer.
Asked(in, n) ==
    [in EXCEPT !.landing = IF in.reachable THEN @ ELSE Unasked,
               !.hash = IF in.reachable /\ in.landing.body = "expected" THEN @ ELSE 0,
               !.login = IF n >= 2 THEN @ ELSE Unasked,
               !.classbook = IF n >= 3 THEN @ ELSE Unasked,
               !.token = IF n >= 3 /\ in.classbook.body = "expected" THEN @ ELSE 0,
               !.resources = IF n >= 4 THEN @ ELSE Unasked,
               !.roster = IF n >= 4 /\ in.resources = [ok |-> TRUE, body |-> "expected"] THEN @ ELSE <<>>]

M0 == [cache |-> cache, heap |-> heap, sent |-> <<>>, monSun |-> monSun]
NoLast ==
    [op |-> "", arg |-> <<>>, list |-> FALSE, err |-> "none", ret |-> 0, val |-> NoVal,
     sent |-> <<>>, yielded |-> <<>>, repeat |-> FALSE, in |-> <<>>, mode |-> ""]

\* an event loop without tasks
NoLoop == [tasks |-> <<>>, running |-> 0, log |-> <<>>]

Init ==
    /\ phase = "new"
    /\ self = NoSelf
    /\ cache = << >>
    /\ heap = << >>
    /\ monSun = << >>
    /\ ver = 0
    /\ mates = <<1, 2>>
    /\ today = 0
    /\ ops = 0
    /\ last = NoLast
    /\ first = << >>
    /\ firstFull = << >>
    /\ loop = NoLoop

\* Intranet(username, password, schoolcode). The portal's answers are drawn first;
\* the roster is drawn only when the resources request is answered with one.
Construct(usernames, rosters, hashes, tokens) ==
    /\ phase = "new"
    /\ \E username \in usernames, hash \in hashes, token \in tokens,
          reachable \in BOOLEAN, landing \in Responses, login \in Responses,
          classbook \in Responses, resources \in Responses :
          LET in0 == [reachable |-> reachable, landing |-> landing, hash |-> hash, login |-> login,
                      classbook |-> classbook, token |-> token, resources |-> resources,
                      roster |-> <<>>, ver |-> ver]
              served == Asked(in0, Intranet_init(M0, username, in0).asked).resources.body = "expected"
          IN  \E roster \in (IF served THEN rosters ELSE {<<>>}) :
                  LET in == [in0 EXCEPT !.roster = roster]
                      r == Intranet_init(M0, username, in)
                  IN  /\ phase' = IF r.err = "none" THEN "ready" ELSE "failed"
                      /\ self' = r.self
                      /\ cache' = IF r.err = "none" THEN r.m.cache ELSE cache
                      /\ heap' = IF r.err = "none" THEN r.m.heap ELSE heap
                      /\ last' = [NoLast EXCEPT !.op = "__init__", !.arg = username, !.err = r.err,
                                                !.sent = r.m.sent, !.in = <<Asked(in, r.asked)>>]
                      /\ first' = IF r.err = "none"
                                  THEN Remember(first, Key("get_resources", <<>>), r.self.resources)
                                  ELSE first
    /\ UNCHANGED <<monSun, ver, mates, today, ops, firstFull, loop>>

ConstructClient == Construct(ClientUsernames, ClientRosters, ClientHashes, ClientTokens)
ConstructAny == Construct(Usernames, Rosters, Hashes, Tokens)

Env == [self |-> self, ver |-> ver, mates |-> mates, today |-> today]
Good == [ok |-> TRUE, body |-> "expected"]
\* the answers to one operation's requests
In(resp, resp2, tzs, tze, picerr) ==
    [resp |-> resp, resp2 |-> resp2, tzs |-> tzs, tze |-> tze, picerr |-> picerr]
In1(resp) == In(resp, Good, 0, 0, "")

\* The state after an operation on the constructed client with outcome r. memo
\* tells whether the operation is one of the memoized ones.
Done(r, op, arg, list, memo, mode) ==
    LET k == Key(op, arg)
        again == memo /\ ~list /\ k \in DOMAIN first
    IN  /\ cache' = r.m.cache
        /\ heap' = r.m.heap
        /\ monSun' = r.m.monSun
        /\ ops' = ops + 1
        /\ last' = [NoLast EXCEPT !.op = op, !.arg = arg, !.list = list, !.err = r.err, !.ret = r.ret,
                                  !.val = r.val, !.sent = r.m.sent, !.yielded = r.yielded,
                                  !.repeat = again, !.mode = mode]
        /\ first' = IF memo /\ ~list /\ r.err = "none" /\ ~again
                    THEN Remember(first, k, r.ret) ELSE first
        /\ UNCHANGED <<phase, self, ver, mates, today, loop>>

Ready == phase = "ready" /\ ops < MaxOps

\* client.get_resources()
CallGetResources ==
    /\ Ready
    /\ \E resp \in Responses :
          Done(get_resources(M0, self.csrf_token, resp, <<>>, ver), "get_resources", <<>>, FALSE, TRUE, "call")
    /\ UNCHANGED firstFull

\* client.get_timetable(start_date, end_date): returns the generator
CallGetTimetable(pairs) ==
    /\ Ready
    /\ \E a \in pairs : Done(get_timetable(M0, a[1], a[2]), "get_timetable", a, FALSE, TRUE, "call")
    /\ UNCHANGED firstFull

ListOps == {"get_absences", "get_class_mates", "get_class_teachers"}
\* client.get_absences(), client.get_class_mates(), client.get_class_teachers()
CallList ==
    /\ Ready
    /\ \E op \in ListOps : Done(CachedGenerator(M0, op, <<>>), op, <<>>, FALSE, TRUE, "call")
    /\ UNCHANGED firstFull

\* one lesson, or the list of all lessons
AbsenceArgs == {[list |-> FALSE, ls |-> <<l>>] : l \in Lessons} \cup {[list |-> TRUE, ls |-> [i \in 1..MaxLesson |-> i]]}
\* client.get_lesson_absence_data(lesson)
CallGetLessonAbsenceData ==
    /\ Ready
    /\ \E a \in AbsenceArgs, resp \in Responses, resp2 \in Responses :
          Done(get_lesson_absence_data(M0, a, In(resp, resp2, 0, 0, ""), Env),
               "get_lesson_absence_data", a.ls, a.list, TRUE, "call")
    /\ UNCHANGED firstFull

\* client.get_additional_homework_info(lesson)
CallGetAdditionalHomeworkInfo ==
    /\ Ready
    /\ \E l \in Lessons, resp \in Responses :
          Done(get_additional_homework_info(M0, l, In1(resp), Env),
               "get_additional_homework_info", <<l>>, FALSE, TRUE, "call")
    /\ UNCHANGED firstFull

\* answers of ajax-save-lesson-home-work-data: also one whose data is the empty list
SaveResponses == Responses \cup {[ok |-> TRUE, body |-> "empty"]}
\* (title, description): both "", or both a text
HomeworkTexts == { <<0, 0>>, <<1, 1>> }
\* client.set_homework_data(lesson, title, description)
CallSetHomeworkData ==
    /\ Ready
    /\ \E l \in Lessons, t \in HomeworkTexts, resp \in SaveResponses :
          Done(set_homework_data(M0, l, t[1], t[2], In1(resp), Env),
               "set_homework_data", <<l, t[1], t[2]>>, FALSE, FALSE, "call")
    /\ UNCHANGED firstFull

\* client.delete_homework_info(lesson)
CallDeleteHomeworkInfo ==
    /\ Ready
    /\ \E l \in Lessons, resp \in SaveResponses :
          Done(delete_homework_info(M0, l, In1(resp), Env),
               "delete_homework_info", <<l>>, FALSE, FALSE, "call")
    /\ UNCHANGED firstFull

PictureErrors == {"binascii.Error", "UnidentifiedImageError"}
\* client.get_person_picture(studentid)
CallGetPersonPicture ==
    /\ Ready
    /\ \E sid \in {0, 1}, resp \in Responses, picerr \in PictureErrors :
          Done(get_person_picture(M0, sid, In(resp, Good, 0, 0, picerr), Env),
               "get_person_picture", <<sid>>, FALSE, FALSE, "call")
    /\ UNCHANGED firstFull

\* `for x in client.op(...):` over a generator-valued operation: the call, then
\* the loop, run to the end or left by break after the first record (full = FALSE)
ForEach(pairs, listops, tzs, full) ==
    /\ Ready
    /\ \E k \in {Key("get_timetable", a) : a \in pairs} \cup {Key(op, <<>>) : op \in listops},
          resp \in Responses, tz1 \in tzs, tz2 \in tzs :
          LET c == CachedGenerator(M0, k.op, k.arg)
              r == Iterate(c.m, c.ret, full, In(resp, Good, tz1, tz2, ""), Env)
          IN  /\ Done(r, k.op, k.arg, FALSE, TRUE, IF full THEN "loop" ELSE "break")
              /\ firstFull' = IF full /\ r.err = "none" /\ c.val.st = "fresh" /\ r.yielded # <<>>
                                 /\ k \notin DOMAIN firstFull
                              THEN Remember(firstFull, k, r.yielded)
                              ELSE firstFull

\* the portal's data changes
PortalChange ==
    /\ ver < MaxVer
    /\ ver' = ver + 1
    /\ mates' \in MateLists
    /\ UNCHANGED <<phase, self, cache, heap, monSun, today, ops, last, first, firstFull, loop>>

\* midnight passes
Tick ==
    /\ today < MaxToday
    /\ today' = today + 1
    /\ UNCHANGED <<phase, self, cache, heap, monSun, ver, mates, ops, last, first, firstFull, loop>>

\* the dates the explored client asks for: the default window and 05.01.70 - 12.01.70
ClientPairs == { <<0, 0>>, <<1, 2>> }
ClientTz == {0}
\* date arguments: both default, one default, increasing, decreasing, equal,
\* one-digit fields, malformed start, malformed end, a day that does not exist
DatePairs ==
    { <<0, 0>>, <<0, 7>>, <<1, 0>>, <<0, 2>>, <<1, 2>>, <<2, 1>>, <<1, 1>>, <<3, 2>>,
      <<4, 2>>, <<1, 5>>, <<6, 2>> }
CallGetTimetableClient == CallGetTimetable(ClientPairs)
ForEachFull == ForEach(ClientPairs, ListOps, ClientTz, TRUE)
ForEachBreak == ForEach(ClientPairs, ListOps, ClientTz, FALSE)
ForEachDates == ForEach(DatePairs, {}, TzOffsets, TRUE)

\* the memoized operations of one client
NextMemo ==
    \/ ConstructClient
    \/ PortalChange
    \/ CallGetResources
    \/ CallGetTimetableClient
    \/ CallList
    \/ CallGetLessonAbsenceData
    \/ CallGetAdditionalHomeworkInfo
    \/ ForEachFull
    \/ ForEachBreak
SpecMemo == Init /\ [][NextMemo]_vars

\* every operation of one client
Next ==
    \/ NextMemo
    \/ CallSetHomeworkData
    \/ CallDeleteHomeworkInfo
    \/ CallGetPersonPicture
Spec == Init /\ [][Next]_vars

\* construction alone, over every username and roster
NextConstruct == ConstructAny
SpecConstruct == Init /\ [][NextConstruct]_vars

\* the homework operations and the picture, with the memoized homework info
NextSave ==
    \/ ConstructClient
    \/ CallGetAdditionalHomeworkInfo
    \/ CallSetHomeworkData
    \/ CallDeleteHomeworkInfo
    \/ CallGetPersonPicture
SpecSave == Init /\ [][NextSave]_vars

\* construction over every username and roster, then operations on the client
NextHandshake == ConstructAny \/ CallGetResources \/ CallDeleteHomeworkInfo \/ CallGetPersonPicture
SpecHandshake == Init /\ [][NextHandshake]_vars

\* the timetable's window, over every pair of date arguments and over the days
NextDates == ConstructClient \/ Tick \/ ForEachDates
SpecDates == Init /\ [][NextDates]_vars

\* ------------------------------------------------------- extraction layer
\* Longest content of the JSON blob a list page embeds.
MaxContent == 2

BS == "\\"
DQ == "\""
SQ == "'"
NL == "\n"
\* One character outside ASCII (U+00FC) and the two bytes of its UTF-8 encoding.
UE == "ue"
UEBytes == <<"c3", "bc">>
HighBytes == {"c3", "bc"}

\* "gridDataAndConfiguration:" of the lookbehind, and the "},front" closing the match
GridMarker ==
    <<"g", "r", "i", "d", "D", "a", "t", "a", "A", "n", "d", "C", "o", "n", "f", "i", "g", "u", "r",
      "a", "t", "i", "o", "n", ":">>
FrontMarker == <<"}", ",", "f", "r", "o", "n", "t">>

\* The JSON texts json.loads is given here are {"d":"<string>"}: one string value,
\* standing for the object whose ['data']['data'] the code takes.
JsonOpen == <<"{", DQ, "d", DQ, ":", DQ>>
JsonClose == <<DQ, "}">>

RECURSIVE Flatten(_)
Flatten(ss) == IF ss = <<>> THEN <<>> ELSE Head(ss) \o Flatten(Tail(ss))
MapChars(f, s) == Flatten([i \in 1..Len(s) |-> f[s[i]]])

ContentChars == {"a", BS, DQ, SQ, NL, UE}
ContentsOfLen(n) == [1..n -> ContentChars]
Contents == UNION {ContentsOfLen(n) : n \in 0..MaxContent}

\* The portal side: a string value written as JSON text in UTF-8 bytes.
JsonEscape == [c \in ContentChars |->
    IF c = BS THEN <<BS, BS>> ELSE IF c = DQ THEN <<BS, DQ>> ELSE IF c = NL THEN <<BS, "n">>
    ELSE IF c = UE THEN UEBytes ELSE <<c>>]
dumps(content) == JsonOpen \o MapChars(JsonEscape, content) \o JsonClose

\* The embedding: the JSON text as it is, or with every backslash doubled.
Embeddings == {"raw", "doubled"}
DoubleBackslashes(t) == Flatten([i \in 1..Len(t) |-> IF t[i] = BS THEN <<BS, BS>> ELSE <<t[i]>>])
Embed(t, how) == IF how = "doubled" THEN DoubleBackslashes(t) ELSE t

\* What follows the blob's ",front" on the page.
PageTails == {<<>>, <<";", "x", ":", "{">> \o FrontMarker}
ListPage(content, how, tail) ==
    <<"<", "s", ">">> \o GridMarker \o Embed(dumps(content), how) \o Tail(FrontMarker) \o tail
\* the page the portal serves for an expired session
ReauthPage == <<"<", "f", "o", "r", "m", ">">>

\* str(response.content): the repr of a bytes object
ReprQuote(b) == IF SQ \in Range(b) /\ DQ \notin Range(b) THEN DQ ELSE SQ
ReprByte(c, q) ==
    IF c = BS THEN <<BS, BS>>
    ELSE IF c = NL THEN <<BS, "n">>
    ELSE IF c = q THEN <<BS, c>>
    ELSE IF c = "c3" THEN <<BS, "x", "c", "3">>
    ELSE IF c = "bc" THEN <<BS, "x", "b", "c">>
    ELSE <<c>>
bytes_str(b) ==
    <<"b", ReprQuote(b)>> \o Flatten([i \in 1..Len(b) |-> ReprByte(b[i], ReprQuote(b))]) \o <<ReprQuote(b)>>

\* response.content.decode(): UTF-8
\* A byte of the two-byte sequence decodes only next to its partner.
WellPaired(b, i) ==
    IF b[i] = "c3" THEN i < Len(b) /\ b[i + 1] = "bc" ELSE i > 1 /\ b[i - 1] = "c3"
DecodedAt(b, i) == IF b[i] = "c3" THEN <<UE>> ELSE IF b[i] = "bc" THEN <<>> ELSE <<b[i]>>
decode(b) ==
    IF \E i \in 1..Len(b) : b[i] \in HighBytes /\ ~WellPaired(b, i)
    THEN [err |-> "UnicodeDecodeError", text |-> <<>>]
    ELSE [err |-> "none", text |-> Flatten([i \in 1..Len(b) |-> DecodedAt(b, i)])]

\* re.search(_REGEX_ABSENCES, text): "{", then as much as possible without a
\* newline, then "},front", the "{" right behind "gridDataAndConfiguration:".
\* The leftmost start wins and, for it, the last end. <<>> is None.
MatchStarts(t) ==
    {i \in (Len(GridMarker) + 1)..Len(t) : t[i] = "{" /\ SubSeq(t, i - Len(GridMarker), i - 1) = GridMarker}
MatchEnds(t, i) ==
    {j \in (i + 1)..(Len(t) - 6) : SubSeq(t, j, j + 6) = FrontMarker /\ \A k \in (i + 1)..(j - 1) : t[k] # NL}
SetMin(S) == CHOOSE x \in S : \A y \in S : x <= y
SetMax(S) == CHOOSE x \in S : \A y \in S : x >= y
MatchFrom(t, i) == SubSeq(t, i, SetMax(MatchEnds(t, i)) + 6)
MatchAmong(t, starts) == IF starts = {} THEN <<>> ELSE MatchFrom(t, SetMin(starts))
re_search(t) == MatchAmong(t, {i \in MatchStarts(t) : MatchEnds(t, i) # {}})

\* .group()[:-6]
TrimFront(match) == SubSeq(match, 1, Len(match) - 6)

\* .replace("\\\\", "\\"): left to right, without overlap
RECURSIVE replace(_)
replace(t) ==
    IF t = <<>> THEN <<>>
    ELSE IF Len(t) >= 2 /\ t[1] = BS /\ t[2] = BS THEN <<BS>> \o replace(SubSeq(t, 3, Len(t)))
    ELSE <<t[1]>> \o replace(Tail(t))

\* json.loads of a string value: the escapes of JSON, no raw control character
RECURSIVE ParseString(_)
ParseError == [err |-> "JSONDecodeError", val |-> <<>>, rest |-> <<>>]
ConsParsed(c, r) == IF r.err # "none" THEN r ELSE [r EXCEPT !.val = <<c>> \o @]
Unescaped(c) == IF c = "n" THEN NL ELSE c
ParseString(t) ==
    IF t = <<>> THEN ParseError
    ELSE IF t[1] = DQ THEN [err |-> "none", val |-> <<>>, rest |-> Tail(t)]
    ELSE IF t[1] = NL THEN ParseError
    ELSE IF t[1] # BS THEN ConsParsed(t[1], ParseString(Tail(t)))
    ELSE IF Len(t) >= 2 /\ t[2] \in {BS, DQ, "n"}
    THEN ConsParsed(Unescaped(t[2]), ParseString(SubSeq(t, 3, Len(t))))
    ELSE ParseError
LoadsEnd(r) ==
    IF r.err = "none" /\ r.rest = <<"}">> THEN [err |-> "none", val |-> r.val]
    ELSE [err |-> "JSONDecodeError", val |-> <<>>]
json_loads(t) ==
    IF Len(t) >= Len(JsonOpen) /\ SubSeq(t, 1, Len(JsonOpen)) = JsonOpen
    THEN LoadsEnd(ParseString(SubSeq(t, Len(JsonOpen) + 1, Len(t))))
    ELSE [err |-> "JSONDecodeError", val |-> <<>>]

\* The text the pattern is searched in: str(response.content) in get_absences and
\* get_class_mates, response.content.decode() in get_class_teachers.
PageText(op, page) ==
    IF op = "get_class_teachers" THEN decode(page) ELSE [err |-> "none", text |-> bytes_str(page)]
ExtractMatch(match) ==
    IF match = <<>> THEN [err |-> "AttributeError", val |-> <<>>]
    ELSE json_loads(replace(TrimFront(match)))
ExtractText(t) == IF t.err # "none" THEN [err |-> t.err, val |-> <<>>] ELSE ExtractMatch(re_search(t.text))
ExtractList(op, page) == ExtractText(PageText(op, page))

\* One list operation iterated on a client whose portal serves a given page: the
\* page is drawn at the start, the operation extracts from it.
Pages == {[kind |-> "list", content |-> c, how |-> h, tail |-> t] : c \in Contents, h \in Embeddings, t \in PageTails}
             \cup {[kind |-> "reauth", content |-> <<>>, how |-> "raw", tail |-> <<>>]}
PageBytes(pg) == IF pg.kind = "reauth" THEN ReauthPage ELSE ListPage(pg.content, pg.how, pg.tail)
InitExtract ==
    /\ phase = "new"
    /\ self = NoSelf
    /\ cache = << >>
    /\ heap = << >>
    /\ monSun = << >>
    /\ ver = 0
    /\ mates = <<1, 2>>
    /\ today = 0
    /\ ops = 0
    /\ \E pg \in Pages : last = [NoLast EXCEPT !.in = <<pg>>]
    /\ first = << >>
    /\ firstFull = << >>
    /\ loop = NoLoop
Extracted(op, r) ==
    [last EXCEPT !.op = op, !.mode = "extract", !.err = r.err, !.yielded = r.val]
Extract ==
    /\ last.op = ""
    /\ \E op \in ListOps : last' = Extracted(op, ExtractList(op, PageBytes(last.in[1])))
    /\ UNCHANGED <<phase, self, cache, heap, monSun, ver, mates, today, ops, first, firstFull, loop>>
NextExtract == Extract
SpecExtract == InitExtract /\ [][NextExtract]_vars

\* ------------------------------------------------------------ AsyncClient
\* The calls made through the facade: each entry point with one argument tuple.
AsyncCalls ==
    {[op |-> "get_resources", arg |-> <<>>], [op |-> "get_timetable", arg |-> <<0, 0>>],
     [op |-> "get_class_teachers", arg |-> <<>>], [op |-> "get_class_mates", arg |-> <<>>],
     [op |-> "get_absences", arg |-> <<>>], [op |-> "get_lesson_absence_data", arg |-> <<1>>],
     [op |-> "get_additional_homework_info", arg |-> <<1>>],
     [op |-> "set_homework_data", arg |-> <<1, 1, 1>>], [op |-> "delete_homework_info", arg |-> <<1>>]}
OneLesson(arg) == [list |-> FALSE, ls |-> arg]

\* the method of Intranet called directly
Intranet_call(m, c, in, env) ==
    CASE c.op = "get_resources" -> get_resources(m, env.self.csrf_token, in.resp, <<>>, env.ver)
      [] c.op = "get_timetable" -> get_timetable(m, c.arg[1], c.arg[2])
      [] c.op = "get_class_teachers" -> get_class_teachers(m)
      [] c.op = "get_class_mates" -> get_class_mates(m)
      [] c.op = "get_absences" -> get_absences(m)
      [] c.op = "get_lesson_absence_data" -> get_lesson_absence_data(m, OneLesson(c.arg), in, env)
      [] c.op = "get_additional_homework_info" -> get_additional_homework_info(m, c.arg[1], in, env)
      [] c.op = "set_homework_data" -> set_homework_data(m, c.arg[1], c.arg[2], c.arg[3], in, env)
      [] OTHER -> delete_homework_info(m, c.arg[1], in, env)

\* The bodies of the entry points: return self.instance.<method>(*args, **kwargs)
AsyncClient_get_timetable(m, arg, in, env) == get_timetable(m, arg[1], arg[2])
AsyncClient_get_resources(m, arg, in, env) == get_resources(m, env.self.csrf_token, in.resp, <<>>, env.ver)
AsyncClient_get_class_teachers(m, arg, in, env) == get_class_teachers(m)
AsyncClient_get_class_mates(m, arg, in, env) == get_class_mates(m)
AsyncClient_get_absences(m, arg, in, env) == get_absences(m)
AsyncClient_get_lesson_absence_data(m, arg, in, env) == get_lesson_absence_data(m, OneLesson(arg), in, env)
AsyncClient_get_additional_homework_info(m, arg, in, env) == get_additional_homework_info(m, arg[1], in, env)
AsyncClient_set_homework_data(m, arg, in, env) == set_homework_data(m, arg[1], arg[2], arg[3], in, env)
AsyncClient_delete_homework_info(m, arg, in, env) == delete_homework_info(m, arg[1], in, env)
AsyncClient_call(m, c, in, env) ==
    CASE c.op = "get_timetable" -> AsyncClient_get_timetable(m, c.arg, in, env)
      [] c.op = "get_resources" -> AsyncClient_get_resources(m, c.arg, in, env)
      [] c.op = "get_class_teachers" -> AsyncClient_get_class_teachers(m, c.arg, in, env)
      [] c.op = "get_class_mates" -> AsyncClient_get_class_mates(m, c.arg, in, env)
      [] c.op = "get_absences" -> AsyncClient_get_absences(m, c.arg, in, env)
      [] c.op = "get_lesson_absence_data" -> AsyncClient_get_lesson_absence_data(m, c.arg, in, env)
      [] c.op = "get_additional_homework_info" -> AsyncClient_get_additional_homework_info(m, c.arg, in, env)
      [] c.op = "set_homework_data" -> AsyncClient_set_homework_data(m, c.arg, in, env)
      [] OTHER -> AsyncClient_delete_homework_info(m, c.arg, in, env)

\* a coroutine that gives the loop a turn after its first request
AwaitAfterFirstRequest(op) == {1}
\* The numbers of requests after which the body of an entry point awaits, where the
\* loop may run another task: no body contains an await.
AwaitPoints(op) == {}

\* what a call gave: the error or the returned object, and the requests it sent
Outcome(r) == [err |-> r.err, ret |-> r.ret, val |-> r.val, sent |-> r.m.sent]
NoOutcome == [err |-> "", ret |-> 0, val |-> NoVal, sent |-> <<>>]
\* a coroutine object: calling an entry point runs nothing of its body
Coroutine(c, resp) ==
    [op |-> c.op, arg |-> c.arg, resp |-> resp, st |-> "pending", pos |-> 0, res |-> NoOutcome,
     direct |-> NoOutcome]
AtAwait(t) == t.st = "running" /\ t.pos \in AwaitPoints(t.op) /\ t.pos < Len(t.res.sent)
\* the loop is free to run a task: nothing runs, or what runs is at an await
LoopFree == IF loop.running = 0 THEN TRUE ELSE AtAwait(loop.tasks[loop.running])
MayRun(i) == loop.tasks[i].st = "running" /\ (IF loop.running = i THEN TRUE ELSE LoopFree)

\* asyncio.gather(instance.a(...), instance.b(...)) on a constructed AsyncClient
Gather ==
    /\ phase = "ready"
    /\ loop.tasks = <<>>
    /\ \E c1 \in AsyncCalls, c2 \in AsyncCalls, resp1 \in Responses, resp2 \in Responses :
          loop' = [loop EXCEPT !.tasks = <<Coroutine(c1, resp1), Coroutine(c2, resp2)>>]
    /\ UNCHANGED <<phase, self, cache, heap, monSun, ver, mates, today, ops, last, first, firstFull>>

\* The loop starts task i: the body runs the method of self.instance. direct is what
\* the method gives when called directly in the same state.
Started(t, r, d) == [t EXCEPT !.st = "running", !.res = Outcome(r), !.direct = Outcome(d)]
ResumeWith(i, r, d) ==
    /\ loop' = [loop EXCEPT !.tasks[i] = Started(@, r, d), !.running = i]
    /\ cache' = r.m.cache
    /\ heap' = r.m.heap
    /\ monSun' = r.m.monSun
Resume ==
    /\ LoopFree
    /\ \E i \in 1..Len(loop.tasks) :
          /\ loop.tasks[i].st = "pending"
          /\ ResumeWith(i, AsyncClient_call(M0, loop.tasks[i], In(loop.tasks[i].resp, loop.tasks[i].resp, 0, 0, ""), Env),
                        Intranet_call(M0, loop.tasks[i], In(loop.tasks[i].resp, loop.tasks[i].resp, 0, 0, ""), Env))
    /\ UNCHANGED <<phase, self, ver, mates, today, ops, last, first, firstFull>>

\* the running call sends its next request
SendNext ==
    /\ \E i \in 1..Len(loop.tasks) :
          /\ MayRun(i)
          /\ loop.tasks[i].pos < Len(loop.tasks[i].res.sent)
          /\ loop' = [loop EXCEPT !.tasks[i].pos = @ + 1, !.running = i,
                                  !.log = Append(@, [task |-> i, req |-> loop.tasks[i].res.sent[loop.tasks[i].pos + 1]])]
    /\ UNCHANGED <<phase, self, cache, heap, monSun, ver, mates, today, ops, last, first, firstFull>>

\* the call has returned or raised: the coroutine finishes with its outcome
Return ==
    /\ \E i \in 1..Len(loop.tasks) :
          /\ MayRun(i)
          /\ loop.tasks[i].pos = Len(loop.tasks[i].res.sent)
          /\ loop' = [loop EXCEPT !.tasks[i].st = "done", !.running = 0]
    /\ UNCHANGED <<phase, self, cache, heap, monSun, ver, mates, today, ops, last, first, firstFull>>

NextAsync == ConstructClient \/ Gather \/ Resume \/ SendNext \/ Return
SpecAsync == Init /\ [][NextAsync]_vars

\* ------------------------------------------------------------------ claims
Answered(x) == x.ok /\ x.body = "expected"
SentTo(ep) == {i \in 1..Len(last.sent) : last.sent[i].ep = ep}

\* C1: a call of a memoized operation whose arguments were already used in a call
\* that returned gives back the object that first call returned, and the call
\* itself returns without an error and sends no HTTP request, whatever the portal
\* serves by then.
C1_RepeatedCallReturnsCachedObject ==
    last.repeat =>
        /\ last.ret = first[Key(last.op, last.arg)]
        /\ last.mode = "call" => (last.err = "none" /\ last.sent = <<>>)
\* a repeated call returned a record fetched before the portal's data changed
C1_Witness ==
    /\ last.repeat
    /\ last.mode = "call"
    /\ last.op = "get_additional_homework_info"
    /\ last.val.ver < ver

\* C2: a loop to the end over the result of a generator-valued operation receives
\* the records the first such loop received, in the same order.
C2_EveryLoopYieldsTheSameRecords ==
    (last.mode = "loop" /\ last.err = "none" /\ Key(last.op, last.arg) \in DOMAIN firstFull)
        => last.yielded = firstFull[Key(last.op, last.arg)]

\* C3: get_lesson_absence_data returns one value for one lesson, and for a list
\* of n lessons a list of n values, the i-th for the i-th lesson, without raising
\* (the portal answering every request as expected and listing the user).
C3_ListOfLessonsGivesListOfRecords ==
    (/\ last.op = "get_lesson_absence_data"
     /\ last.mode = "call"
     /\ \A i \in 1..Len(last.sent) : Answered(last.sent[i])
     /\ self.user_id \in Range(mates))
        => IF last.list
           THEN last.err = "none" /\ last.val.kind = "list" /\ last.val.items = last.arg
           ELSE last.err = "none" => last.val.kind # "list"

\* C4: construction succeeds exactly when the landing page has the hash input,
\* the login POST is accepted and the classbook page has a CSRF token; a bad
\* landing page raises IntranetConnectionError, a missing token AuthenticationError.
C4_ConstructionSucceedsIff ==
    last.op = "__init__" =>
        LET in == last.in[1]
            landingOk == in.reachable /\ Answered(in.landing)
            tokenOk == Answered(in.classbook)
        IN  /\ (last.err = "none") <=> (landingOk /\ in.login.ok /\ tokenOk)
            /\ ~landingOk => last.err = "IntranetConnectionError"
            /\ (landingOk /\ in.login.ok /\ in.classbook.ok /\ ~tokenOk) => last.err = "AuthenticationError"

\* C5: a call of get_lesson_absence_data for one lesson that is no cache hit, the
\* classmates page being served as expected, raises UserIdNotMatching exactly when
\* the client's user_id is not in the classmates list, and otherwise sends the
\* absence-data POST.
C5_FailsExactlyWhenUserAbsent ==
    (/\ last.op = "get_lesson_absence_data"
     /\ last.mode = "call"
     /\ ~last.list
     /\ ~last.repeat
     /\ \A i \in SentTo("list") : Answered(last.sent[i])
     /\ \A id \in 1..Len(heap) :
            (heap[id].op = "get_class_mates" /\ heap[id].ver # -1) => heap[id].items = mates)
        => /\ (last.err = "UserIdNotMatching") <=> (self.user_id \notin Range(mates))
           /\ self.user_id \in Range(mates) => SentTo("ajax-get-lesson-students-absence-data") # {}

\* C6: the validator returns the response it was given when the status is a
\* success, and an operation one of whose requests got a non-success status
\* raises BadStatusCode.
C6_NonSuccessStatusRaisesBadStatusCode ==
    /\ \A r \in Responses : r.ok => _verify_response_code("label", r) = [err |-> "none", ret |-> r]
    /\ (\E i \in 1..Len(last.sent) : ~last.sent[i].ok /\ last.sent[i].body = "error")
           => last.err = "BadStatusCode"

\* C7: set_homework_data raises MissingPermission on an answer with empty data and
\* returns the answer as a Record otherwise; delete_homework_info sends the save
\* request with empty title and description and has the same outcome.
C7_EmptyPayloadRaisesMissingPermission ==
    (last.op \in {"set_homework_data", "delete_homework_info"} /\ Len(last.sent) = 1)
        => /\ (last.sent[1].ok /\ last.sent[1].body = "empty") => last.err = "MissingPermission"
           /\ Answered(last.sent[1]) => (last.err = "none" /\ last.val.kind = "Munch")
           /\ last.op = "delete_homework_info"
                  => (/\ last.sent[1].ep = "ajax-save-lesson-home-work-data"
                      /\ last.sent[1].data = <<last.arg[1], 0, 0, self.csrf_token>>)

\* The day (from 1970-01-01) each date argument denotes in DD.MM.YY, worked out by
\* hand; -1 for a text that is no such date.
DayOfDateArg(i) == CASE i = 1 -> 4 [] i = 2 -> 11 [] i = 3 -> 4 [] OTHER -> -1
IsDefaultArg(i) == i \in {0, 7}
\* the loop that ran the body of get_timetable(start, end) with a custom window
CustomWindowRun ==
    /\ last.op = "get_timetable"
    /\ last.mode = "loop"
    /\ last.val.st = "fresh"
    /\ ~(IsDefaultArg(last.arg[1]) /\ IsDefaultArg(last.arg[2]))

C9_DefaultWindowIsOneWeek ==
    monSun # <<>> =>
        /\ monSun[1][1].z = 3
        /\ NumStrIs(monSun[1][2], IntOf(monSun[1][1]) + 7 * 86400 * 1000)

\* Which person a well-formed username names, and which a roster name names, worked
\* out by hand: a.b, A.b and " a.b" are "b, a"; b.a is "a, b"; 0 is a username
\* that is not firstname.lastname; "b,a" and "b, a " name nobody asked for.
UserKey(u) ==
    CASE u = <<"a", ".", "b">> -> 1 [] u = <<"A", ".", "b">> -> 1 [] u = <<" ", "a", ".", "b">> -> 1
      [] u = <<"b", ".", "a">> -> 2 [] OTHER -> 0
NameKey(n) ==
    CASE n = <<"b", ",", " ", "a">> -> 1 [] n = <<"B", ",", " ", "A">> -> 1
      [] n = <<"a", ",", " ", "b">> -> 2 [] OTHER -> 9
\* construction got as far as identity resolution
ResolutionReached ==
    /\ last.op = "__init__"
    /\ Len(last.sent) = 4
    /\ Answered(last.sent[4])
MatchingEntries ==
    {i \in 1..Len(last.in[1].roster) : NameKey(last.in[1].roster[i].name) = UserKey(last.arg)}

\* C10 as stated: identity resolution succeeds only with exactly one matching
\* roster entry, and fails with UserIdNotMatching with none or with several.
C10_ExactlyOneMatchOrFail ==
    (ResolutionReached /\ UserKey(last.arg) # 0)
        => /\ last.err = "none" => Cardinality(MatchingEntries) = 1
           /\ Cardinality(MatchingEntries) # 1 => last.err = "UserIdNotMatching"

\* C10 amended: identity resolution succeeds when at least one roster entry
\* matches, binding user_id to the first matching entry's personId; with none it
\* fails with UserIdNotMatching (a username not of the form firstname.lastname
\* fails with ValueError).
C10_FirstMatchBound ==
    ResolutionReached =>
        IF UserKey(last.arg) = 0 THEN last.err = "ValueError"
        ELSE IF MatchingEntries = {} THEN last.err = "UserIdNotMatching"
        ELSE /\ last.err = "none"
             /\ \E i \in MatchingEntries :
                    /\ \A j \in MatchingEntries : i <= j
                    /\ self.user_id = last.in[1].roster[i].personId
\* two entries match and construction succeeded
C10_Witness ==
    /\ ResolutionReached
    /\ Cardinality(MatchingEntries) >= 2
    /\ last.err = "none"
    /\ phase = "ready"

\* C11: a list operation given a page without the embedded-JSON pattern raises
\* WrongWebpageReturned; given a page embedding a JSON text with its backslashes
\* doubled, it extracts exactly the structure that text denotes.
C11_ExtractionSignalsOrRoundTrips ==
    last.mode = "extract" =>
        /\ last.in[1].kind = "reauth" => last.err = "WrongWebpageReturned"
        /\ (last.in[1].kind = "list" /\ last.in[1].how = "doubled")
               => (last.err = "none" /\ last.yielded = last.in[1].content)

\* the operations carrying @cache, and the client's operations that carry none
MemoizedOps ==
    {"get_resources", "get_timetable", "get_absences", "get_class_mates", "get_class_teachers",
     "get_lesson_absence_data", "_get_lesson_absence_data", "get_additional_homework_info"}
UnmemoizedOps == {"set_homework_data", "delete_homework_info", "get_person_picture"}

RECURSIVE LogOf(_, _)
LogOf(log, i) ==
    IF log = <<>> THEN <<>>
    ELSE IF log[1].task = i THEN <<log[1].req>> \o LogOf(Tail(log), i)
    ELSE LogOf(Tail(log), i)

HandshakeSteps == <<"base-url", "authentication", "classbook", "ajax-get-resources">>
StepPassed(i, x) == x.ok /\ (i = 2 \/ x.body = "expected")
PersonIds(roster) == {roster[i].personId : i \in 1..Len(roster)}
\* the handshake as the last construction performed it
HandshakeInOrder ==
    last.op = "__init__" =>
        /\ Len(last.sent) <= Len(HandshakeSteps)
        /\ \A i \in 1..Len(last.sent) : last.sent[i].ep = HandshakeSteps[i]
        /\ \A i \in 1..(Len(last.sent) - 1) : StepPassed(i, last.sent[i])
        /\ (\E i \in 1..Len(last.sent) : ~StepPassed(i, last.sent[i])) => last.err # "none"
        /\ Len(last.sent) >= 2 => last.sent[2].data = <<last.in[1].hash>>
        /\ Len(last.sent) = 4 => last.sent[4].data = <<last.in[1].token>>
        /\ last.err # "none" => (phase = "failed" /\ self = NoSelf)
        /\ last.err = "none" => (/\ phase = "ready"
                                 /\ Len(last.sent) = 4
                                 /\ self.csrf_token = last.in[1].token
                                 /\ self.user_id \in PersonIds(last.in[1].roster))

\* C14: construction sends landing GET, login POST with the landing page's hash,
\* classbook GET and resources POST with the extracted token, in this order and
\* once each; a step that fails is the last one and leaves no client; and the
\* fields of a constructed client, csrf_token and user_id among them, never change.
C14_HandshakeOrderedAndIdentityFixed ==
    /\ []HandshakeInOrder
    /\ [][/\ phase = "ready" => (phase' = "ready" /\ self' = self)
          /\ phase = "failed" => (phase' = "failed" /\ self' = self)]_vars
\* operations have run on a constructed client that still has the token and the
\* user_id its construction bound
C14_Witness ==
    /\ phase = "ready"
    /\ ops = MaxOps
    /\ last.op = "delete_homework_info"
    /\ Len(last.sent) = 1
    /\ last.sent[1].data[Len(last.sent[1].data)] = self.csrf_token
    /\ self.csrf_token \in Tokens
    /\ self.user_id # 0

====
